---------------------------- MODULE Spec2Model ----------------------------
(***************************************************************************)
(* A model of markdump (github.com/wansing/markdump): the access gate, the *)
(* request router, the tree builder with its index batch, and the reload   *)
(* of the published (Root, Reader) pair.                                   *)
(*                                                                         *)
(* Strings whose characters matter (file names, slugs, URLs, search input) *)
(* are sequences of one-character tokens; auth tokens, which the code only *)
(* compares for equality, are TLA+ strings.                                *)
(***************************************************************************)
EXTENDS Integers, Sequences, FiniteSets, TLC

(***************************************************************************)
(* Characters                                                              *)
(***************************************************************************)
LowerLetters ==
    << "a", "b", "c", "d", "e", "f", "g", "h", "i", "j", "k", "l", "m",
       "n", "o", "p", "q", "r", "s", "t", "u", "v", "w", "x", "y", "z" >>

UpperLetters ==
    << "A", "B", "C", "D", "E", "F", "G", "H", "I", "J", "K", "L", "M",
       "N", "O", "P", "Q", "R", "S", "T", "U", "V", "W", "X", "Y", "Z" >>

DigitChars ==
    << "0", "1", "2", "3", "4", "5", "6", "7", "8", "9" >>

IndexOf(seq, c) ==
    CHOOSE i \in 1..Len(seq) : seq[i] = c

InSeq(seq, c) ==
    \E i \in 1..Len(seq) : seq[i] = c

\* unicode.ToLower on one rune.  "E_acute" is U+00C9, "e_acute" is U+00E9.
ToLowerRune(c) ==
    IF InSeq(UpperLetters, c) THEN LowerLetters[IndexOf(UpperLetters, c)]
    ELSE IF c = "E_acute" THEN "e_acute"
    ELSE c

\* strings.ToLower
ToLower(s) ==
    [i \in 1..Len(s) |-> ToLowerRune(s[i])]

\* unicode.IsSpace, for the characters of the model's alphabet
IsSpace(c) ==
    c \in {" ", "\t", "\n"}

\* The byte value of an ASCII character: Go compares strings bytewise.
Code(c) ==
    IF InSeq(LowerLetters, c) THEN 96 + IndexOf(LowerLetters, c)
    ELSE IF InSeq(UpperLetters, c) THEN 64 + IndexOf(UpperLetters, c)
    ELSE IF InSeq(DigitChars, c) THEN 47 + IndexOf(DigitChars, c)
    ELSE IF c = "\t" THEN 9
    ELSE IF c = "\n" THEN 10
    ELSE IF c = " " THEN 32
    ELSE IF c = "!" THEN 33
    ELSE IF c = "-" THEN 45
    ELSE IF c = "." THEN 46
    ELSE IF c = "/" THEN 47
    ELSE IF c = "_" THEN 95
    ELSE 200   \* first byte of a multi-byte UTF-8 character

\* Go's s < t on strings: bytewise lexicographic order.
RECURSIVE StrLess(_, _)
StrLess(s, t) ==
    IF t = << >> THEN FALSE
    ELSE IF s = << >> THEN TRUE
    ELSE IF Code(Head(s)) # Code(Head(t)) THEN Code(Head(s)) < Code(Head(t))
    ELSE StrLess(Tail(s), Tail(t))

\* strings.HasPrefix
HasPrefix(s, p) ==
    /\ Len(s) >= Len(p)
    /\ SubSeq(s, 1, Len(p)) = p

\* strings.HasSuffix
HasSuffix(s, p) ==
    /\ Len(s) >= Len(p)
    /\ SubSeq(s, Len(s) - Len(p) + 1, Len(s)) = p

\* strings.TrimSuffix
TrimSuffix(s, p) ==
    IF HasSuffix(s, p) THEN SubSeq(s, 1, Len(s) - Len(p)) ELSE s

\* strings.TrimSpace
RECURSIVE TrimLeft(_)
TrimLeft(s) ==
    IF s # << >> /\ IsSpace(Head(s)) THEN TrimLeft(Tail(s)) ELSE s

RECURSIVE TrimRight(_)
TrimRight(s) ==
    IF s # << >> /\ IsSpace(s[Len(s)]) THEN TrimRight(SubSeq(s, 1, Len(s) - 1))
    ELSE s

TrimSpace(s) ==
    TrimRight(TrimLeft(s))

\* The separator predicates the code hands to strings.FieldsFunc, by name:
\* "slug" (Slugify), "slash" (ServeHTTP), "space" (strings.Fields).
IsSepRune(kind, c) ==
    CASE kind = "slug" -> ~ (InSeq(LowerLetters, c) \/ InSeq(DigitChars, c))
      [] kind = "slash" -> c = "/"
      [] kind = "space" -> IsSpace(c)

\* strings.FieldsFunc(s, f): the maximal runs of characters that are not
\* separators, in order; no empty field.  FieldsAcc scans from index
\* `from`: the next field begins at the first character that is no
\* separator and ends before the next separator.
RECURSIVE FieldsAcc(_, _, _, _)
FieldsAcc(s, kind, from, acc) ==
    LET begin == CHOOSE i \in from..Len(s) :
                    /\ ~ IsSepRune(kind, s[i])
                    /\ \A j \in from..(i - 1) : IsSepRune(kind, s[j])
        end == CHOOSE j \in begin..Len(s) :
                    /\ j = Len(s) \/ IsSepRune(kind, s[j + 1])
                    /\ \A k \in begin..j : ~ IsSepRune(kind, s[k])
    IN  IF \A i \in from..Len(s) : IsSepRune(kind, s[i]) THEN acc
        ELSE FieldsAcc(s, kind, end + 1, Append(acc, SubSeq(s, begin, end)))

FieldsFunc(s, kind) ==
    FieldsAcc(s, kind, 1, << >>)

\* strings.Join
RECURSIVE Join(_, _)
Join(strs, sep) ==
    IF strs = << >> THEN << >>
    ELSE IF Len(strs) = 1 THEN strs[1]
    ELSE strs[1] \o sep \o Join(Tail(strs), sep)

(***************************************************************************)
(* Slugify                                                                 *)
(***************************************************************************)
\* norm.NFD on one rune: a precomposed letter becomes the letter followed
\* by its combining mark ("comb_acute" is U+0301, general category Mn).
DecomposeRune(c) ==
    IF c = "e_acute" THEN << "e", "comb_acute" >>
    ELSE IF c = "E_acute" THEN << "E", "comb_acute" >>
    ELSE << c >>

RECURSIVE NFD(_)
NFD(s) ==
    IF s = << >> THEN << >> ELSE DecomposeRune(Head(s)) \o NFD(Tail(s))

\* runes.Remove(runes.In(unicode.Mn))
RECURSIVE RemoveMn(_)
RemoveMn(s) ==
    IF s = << >> THEN << >>
    ELSE IF Head(s) = "comb_acute" THEN RemoveMn(Tail(s))
    ELSE << Head(s) >> \o RemoveMn(Tail(s))

\* norm.NFC: a letter followed by its combining mark is recomposed.
RECURSIVE NFC(_)
NFC(s) ==
    IF Len(s) >= 2 /\ s[1] = "e" /\ s[2] = "comb_acute"
    THEN << "e_acute" >> \o NFC(SubSeq(s, 3, Len(s)))
    ELSE IF Len(s) >= 2 /\ s[1] = "E" /\ s[2] = "comb_acute"
    THEN << "E_acute" >> \o NFC(SubSeq(s, 3, Len(s)))
    ELSE IF s = << >> THEN << >>
    ELSE << Head(s) >> \o NFC(Tail(s))

\* transform.Chain(norm.NFD, runes.Remove(runes.In(unicode.Mn)), norm.NFC)
transformer(s) ==
    NFC(RemoveMn(NFD(s)))

\* Mutant: every character outside [a-z0-9] becomes a dash.
Slugify_DashPerGap(s) ==
    LET lower == ToLower(transformer(TrimSpace(s)))
    IN  [i \in 1..Len(lower) |->
            IF IsSepRune("slug", lower[i]) THEN "-" ELSE lower[i]]

Slugify(s) ==
    Join(FieldsFunc(ToLower(transformer(TrimSpace(s))), "slug"), << "-" >>)

(***************************************************************************)
(* The content folder on disk                                              *)
(*                                                                         *)
(* A node is a record: name, isDir, children (a sequence, in no particular *)
(* order), content (of a file), readable (FALSE: reading it fails).        *)
(***************************************************************************)
DirEnt(name, children) ==
    [name |-> name, isDir |-> TRUE, children |-> children,
     content |-> << >>, readable |-> TRUE]

FileEnt(name, content) ==
    [name |-> name, isDir |-> FALSE, children |-> << >>,
     content |-> content, readable |-> TRUE]

Unreadable(node) ==
    [node EXCEPT !.readable = FALSE]

\* Insertion of one entry into a sequence sorted by name.
RECURSIVE InsertByName(_, _)
InsertByName(sorted, e) ==
    IF sorted = << >> THEN << e >>
    ELSE IF StrLess(e.name, Head(sorted).name) THEN << e >> \o sorted
    ELSE << Head(sorted) >> \o InsertByName(Tail(sorted), e)

RECURSIVE SortByName(_)
SortByName(entries) ==
    IF entries = << >> THEN << >>
    ELSE InsertByName(SortByName(Tail(entries)), Head(entries))

\* os.ReadDir: the entries of the directory, sorted by filename.
ReadDir(node) ==
    SortByName(node.children)

\* The node at a path of names below `node`; NoEnt when there is none.
NoEnt ==
    [name |-> << >>, isDir |-> FALSE, children |-> << >>,
     content |-> << >>, readable |-> FALSE]

RECURSIVE Lookup(_, _)
Lookup(node, names) ==
    IF names = << >> THEN node
    ELSE IF ~ node.isDir THEN NoEnt
    ELSE IF \E i \in 1..Len(node.children) : node.children[i].name = Head(names)
    THEN Lookup(node.children[CHOOSE i \in 1..Len(node.children) :
                                  node.children[i].name = Head(names)],
                Tail(names))
    ELSE NoEnt

(***************************************************************************)
(* Go slices of *Dir: Dir.Path                                             *)
(*                                                                         *)
(* A *Dir is modelled by the Dir's FsPath below FsDir (one Dir object per  *)
(* directory and pass).  A slice is [arr, len, cap]; heap[arr] is the      *)
(* backing array, [cap, data], data holding the elements written so far.   *)
(***************************************************************************)
NilSlice ==
    [arr |-> 0, len |-> 0, cap |-> 0]

SliceElems(heap, s) ==
    IF s.len = 0 THEN << >> ELSE SubSeq(heap[s.arr].data, 1, s.len)

\* The capacity append gives a grown slice of pointers (runtime.growslice:
\* doubling below 256 elements; the sizes are allocator size classes).
GrowCap(cap) ==
    IF cap = 0 THEN 1 ELSE 2 * cap

\* append(s, x): in place when the capacity allows, else into a new array.
SliceAppend(heap, s, x) ==
    IF s.len < s.cap
    THEN [slice |-> [s EXCEPT !.len = s.len + 1],
          heap  |-> [heap EXCEPT ![s.arr].data =
                        IF Len(@) > s.len
                        THEN [@ EXCEPT ![s.len + 1] = x]
                        ELSE Append(@, x)]]
    ELSE [slice |-> [arr |-> Len(heap) + 1, len |-> s.len + 1,
                     cap |-> GrowCap(s.cap)],
          heap  |-> Append(heap, [cap  |-> GrowCap(s.cap),
                                  data |-> Append(SliceElems(heap, s), x)])]

(***************************************************************************)
(* The tree builder: Dir, File, Dir.Load, Dir.PathString                   *)
(***************************************************************************)
\* srv.RootTitle
RootTitle ==
    << "H", "o", "m", "e" >>

\* d.title for a *Dir d
TitleOf(ptr) ==
    IF ptr = << >> THEN RootTitle ELSE ptr[Len(ptr)]

RECURSIVE TitlesString(_)
TitlesString(ptrs) ==
    IF ptrs = << >> THEN << >>
    ELSE TitleOf(Head(ptrs)) \o << " ", "/", " " >> \o TitlesString(Tail(ptrs))

\* Dir.PathString: the string, and the heap after its append(dir.Path, dir)
\* (an append beyond the capacity goes to an array of its own, dropped on
\* return).
PathString(dir, heap) ==
    LET ap == SliceAppend(heap, dir.Path, dir.FsPath)
        path == SliceElems(ap.heap, ap.slice)
    IN  [str  |-> TitlesString(Tail(path)),
         heap |-> IF dir.Path.len < dir.Path.cap THEN ap.heap ELSE heap]

\* path.Join(url, slug): the non-empty elements joined by "/", cleaned.
PathJoin(url, slug) ==
    IF slug = << >> THEN url
    ELSE IF url = << >> THEN slug
    ELSE IF url[Len(url)] = "/" THEN url \o slug
    ELSE url \o << "/" >> \o slug

\* m[k] = v on a Go map
MapPut(m, k, v) ==
    [x \in (DOMAIN m) \cup {k} |-> IF x = k THEN v ELSE m[x]]

EmptyMap ==
    << >>

\* &Dir{FsPath: ..., Path: ..., title: ..., url: ...}
NewDir(fsPath, path, title, url) ==
    [FsPath |-> fsPath, Path |-> path, title |-> title, url |-> url,
     Subdirs |-> EmptyMap, Files |-> EmptyMap, EntryList |-> << >>]

\* md.RenderToString, an opaque renderer
Render(content) ==
    << "<p>" >> \o content \o << "</p>" >>

\* An element of EntryList: what the Entry interface shows of the object
\* (IsDir, Title, URL) and the object it points to (ptr).
EntryOfDir(d) ==
    [isDir |-> TRUE, title |-> d.title, url |-> d.url, ptr |-> d.FsPath]

EntryOfFile(f) ==
    [isDir |-> FALSE, title |-> f.title, url |-> f.url, ptr |-> f.ptr]

\* Mutant: the entries are sorted by descending URL.
EntryBefore_Descending(a, b, dirFirst) ==
    \/ StrLess(b.url, a.url)
    \/ /\ a.url = b.url
       /\ a.isDir # b.isDir
       /\ a.isDir = dirFirst

\* sort.Slice by URL.  The sort is not stable and the maps are ranged over
\* in no fixed order, so entries with equal URLs (a subdirectory and a
\* document with the same slug) come in either order: dirFirst picks one.
EntryBefore(a, b, dirFirst) ==
    \/ StrLess(a.url, b.url)
    \/ /\ a.url = b.url
       /\ a.isDir # b.isDir
       /\ a.isDir = dirFirst

RECURSIVE SortEntries(_, _)
SortEntries(entries, dirFirst) ==
    IF entries = {} THEN << >>
    ELSE LET first == CHOOSE a \in entries :
                         \A b \in entries \ {a} : EntryBefore(a, b, dirFirst)
         IN  << first >> \o SortEntries(entries \ {first}, dirFirst)

MakeEntryList(subdirs, files, dirFirst) ==
    SortEntries({EntryOfDir(subdirs[k]) : k \in DOMAIN subdirs}
                  \cup {EntryOfFile(files[k]) : k \in DOMAIN files},
                dirFirst)

\* the index documents Load hands to batch.Update
DirDoc(subdir, pathString, name) ==
    [id |-> subdir.url, path |-> pathString, name |-> name,
     content |-> << >>, isDir |-> TRUE]

FileDoc(file, pathString, name, mdContent) ==
    [id |-> file.url, path |-> pathString, name |-> name,
     content |-> mdContent, isDir |-> FALSE]

\* Mutant: no entry is skipped as hidden.
SkipHidden_Never(name) ==
    FALSE

\* strings.HasPrefix(entry.Name(), "."): the entry is skipped
SkipHidden(name) ==
    HasPrefix(name, << "." >>)

\* Mutant: every loaded subdirectory is kept.
KeepSubdir_Always(subdir) ==
    TRUE

\* the test that keeps a loaded subdirectory
KeepSubdir(subdir) ==
    Cardinality(DOMAIN subdir.Subdirs) > 0 \/ Cardinality(DOMAIN subdir.Files) > 0

\* Dir.Load.  Load(node, dir, heap, batch, dirFirst) loads the directory
\* `node` of the disk into `dir`; the result is [err, dir, heap, batch],
\* err "" when it returns nil.
RECURSIVE Load(_, _, _, _, _)
RECURSIVE LoadEntries(_, _, _, _)
\* the body of the range loop for one entry; acc is [err, subdirs, files,
\* heap, batch]
LoadEntry(entry, dir, acc, dirFirst) ==
    LET name == entry.name
        slug == Slugify(name)
    IN  IF SkipHidden(name) THEN acc
        ELSE IF entry.isDir
        THEN LET ap == SliceAppend(acc.heap, dir.Path, dir.FsPath)
                 subdir == NewDir(Append(dir.FsPath, name), ap.slice, name,
                                  PathJoin(dir.url, slug))
                 r == Load(entry, subdir, ap.heap, acc.batch, dirFirst)
                 ps == PathString(r.dir, r.heap)
             IN  IF r.err # "" THEN [acc EXCEPT !.err = r.err]
                 ELSE IF KeepSubdir(r.dir)
                 THEN [acc EXCEPT
                         !.subdirs = MapPut(@, slug, r.dir),
                         !.heap = ps.heap,
                         !.batch = Append(r.batch, DirDoc(r.dir, ps.str, name))]
                 ELSE [acc EXCEPT !.heap = r.heap, !.batch = r.batch]
        ELSE IF HasSuffix(name, << ".", "m", "d" >>)
        THEN LET title == TrimSuffix(name, << ".", "m", "d" >>)
                 file == [title |-> title,
                          HTMLContent |-> Render(entry.content),
                          url |-> PathJoin(dir.url, Slugify(title)),
                          ptr |-> Append(dir.FsPath, name)]
                 ps == PathString(dir, acc.heap)
             IN  IF ~ entry.readable THEN [acc EXCEPT !.err = "ReadFile"]
                 ELSE [acc EXCEPT
                         !.files = MapPut(@, Slugify(title), file),
                         !.heap = ps.heap,
                         !.batch = Append(@, FileDoc(file, ps.str, name,
                                                     entry.content))]
        ELSE acc

LoadEntries(entries, dir, acc, dirFirst) ==
    IF entries = << >> \/ acc.err # "" THEN acc
    ELSE LoadEntries(Tail(entries), dir,
                     LoadEntry(Head(entries), dir, acc, dirFirst), dirFirst)

Load(node, dir, heap, batch, dirFirst) ==
    IF ~ node.readable
    THEN [err |-> "ReadDir", dir |-> dir, heap |-> heap, batch |-> batch]
    ELSE LET acc == LoadEntries(ReadDir(node), dir,
                                [err |-> "", subdirs |-> EmptyMap,
                                 files |-> EmptyMap, heap |-> heap,
                                 batch |-> batch],
                                dirFirst)
         IN  IF acc.err # ""
             THEN [err |-> acc.err, dir |-> dir, heap |-> heap, batch |-> batch]
             ELSE [err   |-> "",
                   dir   |-> [dir EXCEPT
                                !.Subdirs = acc.subdirs,
                                !.Files = acc.files,
                                !.EntryList = MakeEntryList(acc.subdirs,
                                                            acc.files, dirFirst)],
                   heap  |-> acc.heap,
                   batch |-> acc.batch]

(***************************************************************************)
(* Contents of the content folder (srv.FsDir) the model ranges over        *)
(***************************************************************************)
MdExt ==
    << ".", "m", "d" >>

\* A typical folder: documents, assets, a hidden folder, and folders with
\* no document below them.
FsPlain ==
    DirEnt(<< >>, <<
        FileEnt(<< "R", "e", "a", "d", "m", "e" >> \o MdExt, << "h", "i" >>),
        DirEnt(<< ".", "g", "i", "t" >>, <<
            FileEnt(<< "x" >> \o MdExt, << "x" >>) >>),
        DirEnt(<< "D", "o", "c", "s" >>, <<
            FileEnt(<< "G", "u", "i", "d", "e" >> \o MdExt,
                    << "T", "h", "e", " ", "q", "u", "i", "c", "k", " ",
                       "b", "r", "o", "w", "n", " ", "f", "o", "x" >>),
            FileEnt(<< "i", "m", "g", ".", "p", "n", "g" >>, << "P", "N", "G" >>),
            FileEnt(<< ".", "h" >> \o MdExt, << "h" >>),
            FileEnt(<< "i", "n", "d", "e", "x", ".", "h", "t", "m", "l" >>,
                    << "I" >>),
            DirEnt(<< "S", "u", "b" >>, <<
                FileEnt(<< "n" >> \o MdExt, << "n" >>) >>) >>),
        DirEnt(<< "E", "m", "p", "t", "y" >>, << >>),
        DirEnt(<< "A", "s", "s", "e", "t", "s" >>, <<
            FileEnt(<< "l", "o", "g", "o" >>, << "L" >>) >>),
        DirEnt(<< "N", "e", "s", "t" >>, <<
            DirEnt(<< "I", "n" >>, <<
                DirEnt(<< "V", "o", "i", "d" >>, << >>) >>) >>),
        DirEnt(<< "H", "i", "d" >>, <<
            FileEnt(<< ".", "a" >> \o MdExt, << "a" >>) >>)
    >>)

\* The folder after a push: a document added to a folder that had none,
\* one removed, one changed.
FsPushed ==
    DirEnt(<< >>, <<
        FileEnt(<< "R", "e", "a", "d", "m", "e" >> \o MdExt, << "h", "o" >>),
        DirEnt(<< "D", "o", "c", "s" >>, <<
            FileEnt(<< "i", "m", "g", ".", "p", "n", "g" >>, << "P", "N", "G" >>) >>),
        DirEnt(<< "E", "m", "p", "t", "y" >>, <<
            FileEnt(<< "n", "o", "w" >> \o MdExt, << "n", "o", "w" >>) >>)
    >>)

\* Names whose slugs coincide or are empty.
FsOdd ==
    DirEnt(<< >>, <<
        FileEnt(<< "a" >> \o MdExt, << "f", "i", "l", "e" >>),
        DirEnt(<< "a" >>, <<
            FileEnt(<< "b" >> \o MdExt, << "b" >>),
            FileEnt(<< "B" >> \o MdExt, << "B", "B" >>),
            FileEnt(<< "c", ".", "t", "x", "t" >>, << "t" >>) >>),
        DirEnt(<< "!", "!" >>, <<
            FileEnt(<< "E_acute", " ", "1" >> \o MdExt, << "e" >>) >>),
        DirEnt(<< "A" >>, << >>)
    >>)

\* A folder with a directory that cannot be read.
FsNoDir ==
    DirEnt(<< >>, <<
        FileEnt(<< "R", "e", "a", "d", "m", "e" >> \o MdExt, << "h", "i" >>),
        Unreadable(DirEnt(<< "D", "o", "c", "s" >>, <<
            FileEnt(<< "G", "u", "i", "d", "e" >> \o MdExt, << "g" >>) >>))
    >>)

\* A folder with a document that cannot be read.
FsNoFile ==
    DirEnt(<< >>, <<
        DirEnt(<< "D", "o", "c", "s" >>, <<
            Unreadable(FileEnt(<< "G", "u", "i", "d", "e" >> \o MdExt, << "g" >>)) >>),
        FileEnt(<< "z" >> \o MdExt, << "z" >>)
    >>)

\* A folder with more documents about one thing than a search returns.
FsMany ==
    DirEnt(<< >>,
        [i \in 1..12 |->
            FileEnt(<< "n", (DigitChars \o << "a", "b" >>)[i] >> \o MdExt,
                    << "a", " ", "f", "o", "x" >>)])

\* A folder nested seven deep, with two sibling directories at depth six.
FsDeep ==
    DirEnt(<< >>, <<
      DirEnt(<< "d", "1" >>, <<
        DirEnt(<< "d", "2" >>, <<
          DirEnt(<< "d", "3" >>, <<
            DirEnt(<< "d", "4" >>, <<
              DirEnt(<< "d", "5" >>, <<
                DirEnt(<< "s", "1" >>, <<
                  DirEnt(<< "d", "7" >>, <<
                    FileEnt(<< "x" >> \o MdExt, << "x" >>) >>) >>),
                DirEnt(<< "s", "2" >>, <<
                  FileEnt(<< "y" >> \o MdExt, << "y" >>) >>)
              >>) >>) >>) >>) >>) >>)

FsStates ==
    {FsPlain, FsPushed, FsOdd, FsNoDir, FsNoFile}

(***************************************************************************)
(* The access gate: Server.authenticated                                   *)
(*                                                                         *)
(* A request is [path, cookie, auth, s]: the URL path, the "auth" cookie   *)
(* (<< >> when the request has none, else << value >>), the "auth" query   *)
(* parameter ("" when absent) and the "s" query parameter (<< >> when      *)
(* absent).                                                                *)
(***************************************************************************)
\* r.Cookie("auth"): the cookie's value, "" when there is none
CookieToken(r) ==
    IF r.cookie # << >> THEN r.cookie[1] ELSE ""

\* Mutant: the cookie wins over the query parameter.
authenticated_CookieWins(tokens, r) ==
    IF "public" \in tokens
    THEN [token |-> "", ok |-> TRUE, setCookie |-> << >>]
    ELSE LET queryToken == r.auth
             update == queryToken # "" /\ r.cookie = << >>
             token == IF update THEN queryToken ELSE CookieToken(r)
         IN  [token     |-> IF token \in tokens THEN token ELSE "",
              ok        |-> token \in tokens,
              setCookie |-> IF update THEN << queryToken >> ELSE << >>]

\* Mutant: open to all only when "public" is the first configured token
\* (the set's least element stands for the first).
authenticated_PublicFirstOnly(tokens, r) ==
    IF tokens = {"public"}
    THEN [token |-> "", ok |-> TRUE, setCookie |-> << >>]
    ELSE LET queryToken == r.auth
             update == queryToken # "" /\ queryToken # CookieToken(r)
             token == IF update THEN queryToken ELSE CookieToken(r)
         IN  [token     |-> IF token \in tokens THEN token ELSE "",
              ok        |-> token \in tokens,
              setCookie |-> IF update THEN << queryToken >> ELSE << >>]

\* Mutant: every accepted request gets a fresh cookie.
authenticated_RefreshCookie(tokens, r) ==
    IF "public" \in tokens
    THEN [token |-> "", ok |-> TRUE, setCookie |-> << >>]
    ELSE LET queryToken == r.auth
             update == queryToken # "" /\ queryToken # CookieToken(r)
             token == IF update THEN queryToken ELSE CookieToken(r)
         IN  [token     |-> IF token \in tokens THEN token ELSE "",
              ok        |-> token \in tokens,
              setCookie |-> IF update \/ token \in tokens
                            THEN << token >> ELSE << >>]

\* the result is [token, ok, setCookie]: the two values returned and the
\* cookie http.SetCookie put on the response (<< >>: none)
authenticated(tokens, r) ==
    IF "public" \in tokens
    THEN [token |-> "", ok |-> TRUE, setCookie |-> << >>]
    ELSE LET queryToken == r.auth
             update == queryToken # "" /\ queryToken # CookieToken(r)
             token == IF update THEN queryToken ELSE CookieToken(r)
         IN  [token     |-> IF token \in tokens THEN token ELSE "",
              ok        |-> token \in tokens,
              setCookie |-> IF update THEN << queryToken >> ELSE << >>]

(***************************************************************************)
(* The query engine: Server.search                                         *)
(***************************************************************************)
\* the limits written into search and ServeHTTP
MaxInputBytes ==
    128

MaxWords ==
    4

MaxWordBytes ==
    32

TopN ==
    10

MaxSegments ==
    16

\* the UTF-8 length of a character
ByteLen(c) ==
    IF c \in {"e_acute", "E_acute", "comb_acute", "o_slash"} THEN 2
    ELSE IF c = "RuneError" THEN 3
    ELSE 1

\* len(s): the bytes of all its characters, counted one by one
StrBytes(s) ==
    Cardinality({ib \in (1..Len(s)) \X (1..3) : ib[2] <= ByteLen(s[ib[1]])})

\* input[:n] followed by strings.ToLower: the characters that lie within
\* the first n bytes; a character cut in two leaves invalid bytes, which
\* ToLower turns into U+FFFD.
CropBytes(s, n) ==
    LET whole == {m \in 0..Len(s) : StrBytes(SubSeq(s, 1, m)) <= n}
        kept == CHOOSE m \in whole : \A k \in whole : k <= m
    IN  IF kept < Len(s) /\ StrBytes(SubSeq(s, 1, kept)) < n
        THEN Append(SubSeq(s, 1, kept), "RuneError")
        ELSE SubSeq(s, 1, kept)

\* the keys of wordMap
SearchWords(input) ==
    LET cropped == IF StrBytes(input) > MaxInputBytes
                   THEN CropBytes(input, MaxInputBytes) ELSE input
        words == FieldsFunc(ToLower(cropped), "space")
        kept == IF Len(words) > MaxWords THEN SubSeq(words, 1, MaxWords) ELSE words
    IN  {kept[i] : i \in {j \in 1..Len(kept) : StrBytes(kept[j]) <= MaxWordBytes}}

\* the terms of a text field, as the index's analyzer cuts them: words by
\* the Unicode segmentation rules, lowercased.  A word is a run of letters
\* and digits; a '.' between two letters or between two digits does not
\* end it.
IsTermLetter(c) ==
    InSeq(LowerLetters, c) \/ InSeq(UpperLetters, c)
        \/ c \in {"e_acute", "E_acute", "o_slash"}

IsTermSep(c) ==
    ~ (IsTermLetter(c) \/ InSeq(DigitChars, c))

\* the '.' at the head of s, after the word cur, is inside a word
MidWord(s, cur) ==
    /\ Head(s) = "."
    /\ cur # << >>
    /\ Len(s) >= 2
    /\ \/ IsTermLetter(cur[Len(cur)]) /\ IsTermLetter(s[2])
       \/ InSeq(DigitChars, cur[Len(cur)]) /\ InSeq(DigitChars, s[2])

RECURSIVE TermsAcc(_, _, _)
TermsAcc(s, cur, acc) ==
    IF s = << >>
    THEN IF cur = << >> THEN acc ELSE acc \cup {cur}
    ELSE IF MidWord(s, cur)
         THEN TermsAcc(Tail(s), Append(cur, "."), acc)
    ELSE IF IsTermSep(Head(s))
         THEN TermsAcc(Tail(s), << >>, IF cur = << >> THEN acc ELSE acc \cup {cur})
         ELSE TermsAcc(Tail(s), Append(cur, ToLowerRune(Head(s))), acc)

\* the terms of the composite field _all of an index document
AllTerms(doc) ==
    TermsAcc(doc.name, << >>, {}) \cup TermsAcc(doc.content, << >>, {})

\* Levenshtein distance at most 1
WithinOneEdit(a, b) ==
    \/ a = b
    \/ /\ Len(a) = Len(b)
       /\ \E i \in 1..Len(a) :
             \A j \in 1..Len(a) : j # i => a[j] = b[j]
    \/ /\ Len(a) = Len(b) + 1
       /\ \E i \in 1..Len(a) :
             SubSeq(a, 1, i - 1) \o SubSeq(a, i + 1, Len(a)) = b
    \/ /\ Len(b) = Len(a) + 1
       /\ \E i \in 1..Len(b) :
             SubSeq(b, 1, i - 1) \o SubSeq(b, i + 1, Len(b)) = a

\* the wildcard *word*
ContainsStr(term, word) ==
    \E i \in 1..(Len(term) - Len(word) + 1) :
        SubSeq(term, i, i + Len(word) - 1) = word

\* one wordQuery: fuzzy, prefix or wildcard on some term of _all
WordMatches(doc, word) ==
    \E term \in AllTerms(doc) :
        \/ WithinOneEdit(word, term)
        \/ HasPrefix(term, word)
        \/ ContainsStr(term, word)

\* Mutant: a document matches when one of the words does.
QueryMatches_AnyWord(doc, words) ==
    \E word \in words : WordMatches(doc, word)

\* the boolean query; one with no clause matches nothing
QueryMatches(doc, words) ==
    /\ words # {}
    /\ \A word \in words : WordMatches(doc, word)

RECURSIVE SelectMatches(_, _)
SelectMatches(docs, words) ==
    IF docs = << >> THEN << >>
    ELSE IF QueryMatches(Head(docs), words)
    THEN << [Href |-> Head(docs).id, Path |-> Head(docs).path,
             Name |-> Head(docs).name] >>
         \o SelectMatches(Tail(docs), words)
    ELSE SelectMatches(Tail(docs), words)

\* The published reader when there is none (a nil *bluge.Reader).
NilReader ==
    [pass |-> -1, docs |-> << >>]

\* Server.search: [panic, matches].  The matches are the first TopN in index
\* order (the engine's ranking is not modelled).  A nil reader makes
\* srv.Reader.Search dereference nil.
search(reader, input) ==
    LET hits == SelectMatches(reader.docs, SearchWords(input))
    IN  IF reader = NilReader
        THEN [panic |-> TRUE, matches |-> << >>]
        ELSE [panic |-> FALSE,
              matches |-> IF Len(hits) > TopN THEN SubSeq(hits, 1, TopN) ELSE hits]

(***************************************************************************)
(* The request router: Server.ServeHTTP, Server.HandleSearchAPI            *)
(*                                                                         *)
(* A handler is an operator from the server's fields, the disk and the     *)
(* request to the response, which also records what the handler touched:   *)
(* readRoot / readReader (it read srv.Root / srv.Reader, and of which      *)
(* pass), searched (it ran srv.search), lookups (the number of lookups in  *)
(* a Dir's Subdirs or Files), fsAccess (the path it opened on disk).       *)
(***************************************************************************)
NoResponse ==
    [status |-> 0, kind |-> "none", setCookie |-> << >>, token |-> "",
     readRoot |-> FALSE, readReader |-> FALSE, rootPass |-> -1,
     readerPass |-> -1, searched |-> FALSE, lookups |-> 0,
     fsAccess |-> << >>, entry |-> << >>, body |-> << >>, matches |-> << >>]

\* http.Error(w, "unauthorized", http.StatusUnauthorized)
Unauthorized(auth) ==
    [NoResponse EXCEPT !.status = 401, !.kind = "unauthorized",
                       !.setCookie = auth.setCookie]

\* what both search handlers do with srv.search: the result is written
\* with status 200; a panic leaves the connection without a response
SearchResponse(auth, reader, input, kind) ==
    LET result == search(reader, input)
    IN  [NoResponse EXCEPT
           !.status = IF result.panic THEN 0 ELSE 200,
           !.kind = IF result.panic THEN "panic" ELSE kind,
           !.setCookie = auth.setCookie,
           !.token = auth.token,
           !.readReader = TRUE,
           !.readerPass = reader.pass,
           !.searched = TRUE,
           !.matches = result.matches]

\* "index.html", the name http.ServeFile treats specially
IndexPage ==
    << "i", "n", "d", "e", "x", ".", "h", "t", "m", "l" >>

\* containsDotDot(r.URL.Path): an element of the request path is ".."
ContainsDotDot(urlPath) ==
    \E i \in 1..Len(FieldsFunc(urlPath, "slash")) :
        FieldsFunc(urlPath, "slash")[i] = << ".", "." >>

\* http.ServeFile(w, r, name) for the path `names` below FsDir: a request
\* path with a ".." element is rejected; one ending in "/index.html" is
\* redirected to its directory before the file is opened; a directory is
\* redirected to its slash-terminated path, and answered with its
\* index.html if it has one, with a listing if not.  Names that start with
\* '.' are opened like any other.
ServeFile(auth, disk, names, urlPath) ==
    LET node == Lookup(disk, names)
        index == Lookup(disk, Append(names, IndexPage))
        base == [NoResponse EXCEPT !.setCookie = auth.setCookie,
                                   !.token = auth.token,
                                   !.fsAccess = << names >>]
    IN  IF ContainsDotDot(urlPath)
        THEN [base EXCEPT !.status = 400, !.kind = "badrequest", !.fsAccess = << >>]
        ELSE IF HasSuffix(urlPath, << "/" >> \o IndexPage)
        THEN [base EXCEPT !.status = 301, !.kind = "redirect", !.fsAccess = << >>]
        ELSE IF node = NoEnt
        THEN [base EXCEPT !.status = 404, !.kind = "notfound"]
        ELSE IF ~ node.readable
        THEN [base EXCEPT !.status = 403, !.kind = "forbidden"]
        ELSE IF node.isDir /\ urlPath[Len(urlPath)] # "/"
        THEN [base EXCEPT !.status = 301, !.kind = "redirect"]
        ELSE IF node.isDir /\ index # NoEnt /\ index.readable /\ ~ index.isDir
        THEN [base EXCEPT !.status = 200, !.kind = "static",
                          !.body = index.content]
        ELSE IF node.isDir
        THEN [base EXCEPT !.status = 200, !.kind = "listing"]
        ELSE [base EXCEPT !.status = 200, !.kind = "static",
                          !.body = node.content]

\* Mutant: the descent stops at a segment that is a document slug.
RECURSIVE FollowDirs_FilesFirst(_, _, _)
FollowDirs_FilesFirst(dir, reqpath, lookups) ==
    IF reqpath = << >>
    THEN [dir |-> dir, reqpath |-> reqpath, lookups |-> lookups]
    ELSE IF Head(reqpath) \in DOMAIN dir.Files
    THEN [dir |-> dir, reqpath |-> reqpath, lookups |-> lookups + 1]
    ELSE IF Head(reqpath) \in DOMAIN dir.Subdirs
    THEN FollowDirs_FilesFirst(dir.Subdirs[Head(reqpath)], Tail(reqpath),
                               lookups + 1)
    ELSE [dir |-> dir, reqpath |-> reqpath, lookups |-> lookups + 1]

\* the loop "follow dirs": [dir, reqpath, lookups]
RECURSIVE FollowDirs(_, _, _)
FollowDirs(dir, reqpath, lookups) ==
    IF reqpath = << >>
    THEN [dir |-> dir, reqpath |-> reqpath, lookups |-> lookups]
    ELSE IF Head(reqpath) \in DOMAIN dir.Subdirs
    THEN FollowDirs(dir.Subdirs[Head(reqpath)], Tail(reqpath), lookups + 1)
    ELSE [dir |-> dir, reqpath |-> reqpath, lookups |-> lookups + 1]

\* Mutant: the length of the path is tested after the descent.
Route_CheckAfterWalk(auth, root, disk, r) ==
    LET segments == FieldsFunc(r.path, "slash")
        at == FollowDirs(root.dir, segments, 0)
        base == [NoResponse EXCEPT !.setCookie = auth.setCookie,
                                   !.token = auth.token,
                                   !.readRoot = TRUE,
                                   !.rootPass = root.pass]
    IN  IF Len(segments) > MaxSegments
        THEN [base EXCEPT !.status = 422, !.kind = "toolong",
                          !.lookups = at.lookups]
        ELSE IF Len(at.reqpath) = 0
        THEN [base EXCEPT !.status = 200, !.kind = "dir",
                          !.lookups = at.lookups,
                          !.entry = << at.dir.FsPath >>]
        ELSE IF at.reqpath[1] \in DOMAIN at.dir.Files
        THEN [base EXCEPT !.status = 200, !.kind = "file",
                          !.lookups = at.lookups + 1,
                          !.entry = << at.dir.Files[at.reqpath[1]].ptr >>,
                          !.body = at.dir.Files[at.reqpath[1]].HTMLContent]
        ELSE LET served == ServeFile(auth, disk, at.dir.FsPath \o at.reqpath,
                                     r.path)
             IN  [served EXCEPT !.readRoot = TRUE, !.rootPass = root.pass,
                                !.lookups = at.lookups + 1]

\* ServeHTTP from "request path" on
Route(auth, root, disk, r) ==
    LET segments == FieldsFunc(r.path, "slash")
        at == FollowDirs(root.dir, segments, 0)
        base == [NoResponse EXCEPT !.setCookie = auth.setCookie,
                                   !.token = auth.token,
                                   !.readRoot = TRUE,
                                   !.rootPass = root.pass]
    IN  IF Len(segments) > MaxSegments
        THEN [NoResponse EXCEPT !.status = 422, !.kind = "toolong",
                                !.setCookie = auth.setCookie,
                                !.token = auth.token]
        ELSE IF Len(at.reqpath) = 0
        THEN [base EXCEPT !.status = 200, !.kind = "dir",
                          !.lookups = at.lookups,
                          !.entry = << at.dir.FsPath >>]
        ELSE IF at.reqpath[1] \in DOMAIN at.dir.Files
        THEN [base EXCEPT !.status = 200, !.kind = "file",
                          !.lookups = at.lookups + 1,
                          !.entry = << at.dir.Files[at.reqpath[1]].ptr >>,
                          !.body = at.dir.Files[at.reqpath[1]].HTMLContent]
        ELSE LET served == ServeFile(auth, disk, at.dir.FsPath \o at.reqpath,
                                     r.path)
             IN  [served EXCEPT !.readRoot = TRUE, !.rootPass = root.pass,
                                !.lookups = at.lookups + 1]

\* Mutant: the search parameter is handled before the access gate.
ServeHTTP_SearchFirst(tokens, root, reader, disk, r) ==
    LET auth == authenticated(tokens, r)
    IN  IF r.s # << >>
        THEN SearchResponse(auth, reader, TrimSpace(r.s), "searchpage")
        ELSE IF ~ auth.ok THEN Unauthorized(auth)
        ELSE Route(auth, root, disk, r)

ServeHTTP(tokens, root, reader, disk, r) ==
    LET auth == authenticated(tokens, r)
    IN  IF ~ auth.ok THEN Unauthorized(auth)
        ELSE IF r.s # << >>
        THEN SearchResponse(auth, reader, TrimSpace(r.s), "searchpage")
        ELSE Route(auth, root, disk, r)

HandleSearchAPI(tokens, root, reader, disk, r) ==
    LET auth == authenticated(tokens, r)
    IN  IF ~ auth.ok THEN Unauthorized(auth)
        ELSE SearchResponse(auth, reader, r.s, "searchjson")

(***************************************************************************)
(* The server                                                              *)
(***************************************************************************)
VARIABLES
    fs,          \* the content folder on disk
    AuthTokens,  \* Server.AuthTokens
    Root,        \* Server.Root: [pass, dir, heap]
    Reader,      \* Server.Reader: [pass, docs], or NilReader
    passes,      \* the number of Reload passes started so far
    passFs,      \* history: passFs[n + 1] is the disk content pass n read
    rl,          \* the goroutines running Reload: their position and locals
    req,         \* the request being handled, or last handled
    resp,        \* its response; NoResponse while the handler has not run
    issued       \* history: the tokens of the cookies issued to accepted requests

vars ==
    << fs, AuthTokens, Root, Reader, passes, passFs, rl, req, resp, issued >>

\* the number of Reload passes the model follows
MaxPasses ==
    3

\* the goroutines that may run Reload (the reload handler's)
Reloaders ==
    {"r1", "r2"}

\* the AUTH settings the model ranges over (main: at least one token)
TokenConfigs ==
    {{"secret1"}, {"secret1", "secret2"}, {"public"}, {"public", "secret1"}}

NilRoot ==
    [pass |-> -1, dir |-> NewDir(<< >>, NilSlice, << >>, << >>), heap |-> << >>]

\* overlapped (history): the call ran while another call of Reload ran
IdleReloader ==
    [pc |-> "idle", root |-> NilRoot, reader |-> NilReader,
     failedAt |-> "", returned |-> "",
     startRoot |-> NilRoot, startReader |-> NilReader, overlapped |-> FALSE]

NoRequest ==
    [handler |-> "", path |-> << >>, cookie |-> << >>, auth |-> "", s |-> << >>]

\* root := &Dir{...}; root.Load(batch), for pass n
LoadRoot(disk, dirFirst) ==
    Load(disk, NewDir(<< >>, NilSlice, RootTitle, << "/" >>), << >>, << >>,
         dirFirst)

\* main has run srv.Reload() successfully before it listens; the content
\* folder is one of `folders`
InitOn(folders) ==
    /\ fs \in folders
    /\ AuthTokens \in TokenConfigs
    /\ \E dirFirst \in BOOLEAN :
          LET loaded == LoadRoot(fs, dirFirst)
          IN  /\ Root = [pass |-> 0, dir |-> loaded.dir, heap |-> loaded.heap]
              /\ Reader = [pass |-> 0, docs |-> loaded.batch]
    /\ passes = 1
    /\ passFs = << fs >>
    /\ rl = [p \in Reloaders |-> IdleReloader]
    /\ req = NoRequest
    /\ resp = NoResponse
    /\ issued = {}

Init ==
    InitOn({FsPlain, FsPushed, FsOdd})

(***************************************************************************)
(* Requests                                                                *)
(***************************************************************************)
\* a request arrives at one of the two handlers
Arrive(handler, r) ==
    /\ req = NoRequest
    /\ req' = [handler |-> handler, path |-> r.path, cookie |-> r.cookie,
               auth |-> r.auth, s |-> r.s]
    /\ resp' = NoResponse
    /\ UNCHANGED << fs, AuthTokens, Root, Reader, passes, passFs, rl, issued >>

IssuedAfter(response) ==
    IF response.setCookie # << >> /\ response.status # 401
    THEN issued \cup {response.setCookie[1]} ELSE issued

\* the handler of the request runs
Request_ServeHTTP ==
    /\ req.handler = "ServeHTTP"
    /\ resp = NoResponse
    /\ resp' = ServeHTTP(AuthTokens, Root, Reader, fs, req)
    /\ issued' = IssuedAfter(resp')
    /\ UNCHANGED << fs, AuthTokens, Root, Reader, passes, passFs, rl, req >>

Request_HandleSearchAPI ==
    /\ req.handler = "HandleSearchAPI"
    /\ resp = NoResponse
    /\ resp' = HandleSearchAPI(AuthTokens, Root, Reader, fs, req)
    /\ issued' = IssuedAfter(resp')
    /\ UNCHANGED << fs, AuthTokens, Root, Reader, passes, passFs, rl, req >>

\* the response has been written and the handler has returned
Finish ==
    /\ resp # NoResponse
    /\ req' = NoRequest
    /\ resp' = NoResponse
    /\ UNCHANGED << fs, AuthTokens, Root, Reader, passes, passFs, rl, issued >>

(***************************************************************************)
(* Server.Reload, and the pushes that change the content folder            *)
(***************************************************************************)
\* a push changes the content folder
Push(disk) ==
    /\ disk # fs
    /\ fs' = disk
    /\ UNCHANGED << AuthTokens, Root, Reader, passes, passFs, rl, req, resp, issued >>

\* Reload up to "srv.Root = root": OpenWriter, NewBatch, root.Load, Batch.
\* openOk / batchOk: whether OpenWriter / indexWriter.Batch succeed.
Reload_Build(p, openOk, batchOk, dirFirst) ==
    LET loaded == LoadRoot(fs, dirFirst)
        running == {q \in Reloaders \ {p} : rl[q].pc # "idle"}
        begun == [IdleReloader EXCEPT !.startRoot = Root, !.startReader = Reader,
                                      !.overlapped = running # {}]
    IN  /\ rl[p].pc = "idle"
        /\ passes < MaxPasses
        /\ passes' = passes + 1
        /\ passFs' = Append(passFs, fs)
        /\ rl' = [q \in Reloaders |->
                    IF q \in running THEN [rl[q] EXCEPT !.overlapped = TRUE]
                    ELSE IF q # p THEN rl[q]
                    ELSE IF ~ openOk
                    THEN [begun EXCEPT !.failedAt = "OpenWriter", !.returned = "error"]
                    ELSE IF loaded.err # ""
                    THEN [begun EXCEPT !.failedAt = loaded.err, !.returned = "panic"]
                    ELSE IF ~ batchOk
                    THEN [begun EXCEPT !.failedAt = "Batch", !.returned = "error"]
                    ELSE [begun EXCEPT
                            !.pc = "setRoot",
                            !.root = [pass |-> passes, dir |-> loaded.dir,
                                      heap |-> loaded.heap],
                            !.reader = [pass |-> passes, docs |-> loaded.batch]]]
        /\ UNCHANGED << fs, AuthTokens, Root, Reader, req, resp, issued >>

\* srv.Root = root
Reload_SetRoot(p) ==
    /\ rl[p].pc = "setRoot"
    /\ Root' = rl[p].root
    /\ rl' = [rl EXCEPT ![p].pc = "setReader", ![p].root = NilRoot]
    /\ UNCHANGED << fs, AuthTokens, Reader, passes, passFs, req, resp, issued >>

\* srv.Reader, _ = indexWriter.Reader(); return nil.
\* readerOk: whether indexWriter.Reader() succeeds (it returns nil if not).
Reload_SetReader(p, readerOk) ==
    /\ rl[p].pc = "setReader"
    /\ Reader' = IF readerOk THEN rl[p].reader ELSE NilReader
    /\ rl' = [rl EXCEPT ![p].pc = "idle", ![p].reader = NilReader,
                        ![p].failedAt = IF readerOk THEN "" ELSE "Reader",
                        ![p].returned = "nil"]
    /\ UNCHANGED << fs, AuthTokens, Root, passes, passFs, req, resp, issued >>

Reload(p) ==
    \/ \E openOk, batchOk, dirFirst \in BOOLEAN :
          Reload_Build(p, openOk, batchOk, dirFirst)
    \/ Reload_SetRoot(p)
    \/ \E readerOk \in BOOLEAN : Reload_SetReader(p, readerOk)

(***************************************************************************)
(* Specifications                                                          *)
(***************************************************************************)
\* Requests that exercise the access gate.
GateRequests ==
    [path   : {<< "/", "d", "o", "c", "s" >>},
     cookie : {<< >>, << "" >>, << "secret1" >>, << "secret2" >>, << "bad" >>},
     auth   : {"", "secret1", "secret2", "bad"},
     s      : {<< >>, << "f", "o", "x" >>}]

NextGate ==
    \/ \E r \in GateRequests : Arrive("ServeHTTP", r)
    \/ \E r \in GateRequests : Arrive("HandleSearchAPI", r)
    \/ Request_ServeHTTP
    \/ Request_HandleSearchAPI
    \/ Finish

InitGate ==
    Init /\ fs = FsPlain

SpecGate ==
    InitGate /\ [][NextGate]_vars

\* Reloads, one at a time, with pushes and requests in between.
BrowseRequests ==
    [path   : {<< "/", "d", "o", "c", "s" >>, << "/", "e", "m", "p", "t", "y" >>},
     cookie : {<< "secret1" >>},
     auth   : {""},
     s      : {<< >>}]

SearchRequests ==
    [path   : {<< "/", "s", "e", "a", "r", "c", "h" >>},
     cookie : {<< "secret1" >>},
     auth   : {""},
     s      : {<< "n", "o", "w" >>}]

InitReload ==
    Init /\ fs = FsPlain /\ AuthTokens = {"secret1"}

Next ==
    \/ \E disk \in FsStates : Push(disk)
    \/ Reload("r1")
    \/ \E r \in BrowseRequests : Arrive("ServeHTTP", r)
    \/ \E r \in SearchRequests : Arrive("HandleSearchAPI", r)
    \/ Request_ServeHTTP
    \/ Request_HandleSearchAPI
    \/ Finish

Spec ==
    InitReload /\ [][Next]_vars

\* Pushes and Reloads alone: the trees and indexes Reload builds.
NextLoad ==
    \/ \E disk \in FsStates : Push(disk)
    \/ Reload("r1")

SpecLoad ==
    InitReload /\ [][NextLoad]_vars

\* Reloads of two requests to the reload handler, each in its goroutine,
\* with pushes in between.
NextRace ==
    \/ \E disk \in {FsPlain, FsPushed} : Push(disk)
    \/ Reload("r1")
    \/ Reload("r2")

SpecRace ==
    InitReload /\ [][NextRace]_vars

\* Requests that exercise the router, on the tree of the first Reload.
RouteSegs ==
    {<< "d", "o", "c", "s" >>, << "g", "u", "i", "d", "e" >>,
     << "i", "m", "g", ".", "p", "n", "g" >>, << "A", "s", "s", "e", "t", "s" >>,
     << "l", "o", "g", "o" >>, << "a" >>, << "b" >>, << "q" >>, IndexPage}

\* the longest path the model builds from every combination of RouteSegs
MaxDepth ==
    2

SegSeqs(n) ==
    UNION {[1..k -> RouteSegs] : k \in 0..n}

\* the URL path of a sequence of segments
UrlPath(segments, trailingSlash) ==
    << "/" >> \o Join(segments, << "/" >>)
        \o (IF trailingSlash /\ segments # << >> THEN << "/" >> ELSE << >>)

\* `base` followed by "q" segments, n segments in all
Padded(base, n) ==
    base \o [i \in 1..(n - Len(base)) |-> << "q" >>]

LongPaths ==
    {UrlPath(Padded(base, n), FALSE) :
        base \in {<< >>, << << "d", "o", "c", "s" >>, << "g", "u", "i", "d", "e" >> >>},
        n \in {MaxSegments, MaxSegments + 1, MaxSegments + 2}}

\* paths that name hidden files and directories of the content folder
HiddenPaths ==
    {UrlPath(<< << ".", "g", "i", "t" >>, << "x" >> \o MdExt >>, FALSE),
     UrlPath(<< << ".", "g", "i", "t" >> >>, FALSE),
     UrlPath(<< << ".", "g", "i", "t" >> >>, TRUE),
     UrlPath(<< << "d", "o", "c", "s" >>, << ".", "h" >> \o MdExt >>, FALSE),
     UrlPath(<< << "H", "i", "d" >>, << ".", "a" >> \o MdExt >>, FALSE),
     UrlPath(<< << "d", "o", "c", "s" >>, << ".", "." >>,
                << ".", "g", "i", "t" >>, << "x" >> \o MdExt >>, FALSE)}

RoutePaths ==
    {UrlPath(segments, FALSE) : segments \in SegSeqs(MaxDepth)}
        \cup {UrlPath(segments, TRUE) : segments \in SegSeqs(1)}
        \cup LongPaths
        \cup HiddenPaths

RouteRequests ==
    [path   : RoutePaths,
     cookie : {<< >>, << "secret1" >>},
     auth   : {""},
     s      : {<< >>, << "f", "o", "x" >>}]

InitRoute ==
    Init /\ AuthTokens = {"secret1"}

NextRoute ==
    \/ \E r \in RouteRequests : Arrive("ServeHTTP", r)
    \/ Request_ServeHTTP
    \/ Finish

SpecRoute ==
    InitRoute /\ [][NextRoute]_vars

\* Searches, through both handlers, on an index with few and with many hits.
Rep(c, n) ==
    [i \in 1..n |-> c]

QueryWords ==
    {<< "q", "u", "i", "c", "k" >>, << "q", "w", "i", "c", "k" >>,
     << "Q", "U", "I", "C", "K" >>, << "f", "o", "x" >>,
     << "g", "u", "i", "d", "e" >>, << "x", "y", "z" >>,
     Rep("a", 40), Rep("e_acute", 17)}

\* the longest input the model builds from every combination of QueryWords
MaxQueryWords ==
    2

LongQueries ==
    {<< " ", "\t", " " >>,
     Join(<< Rep("a", 40), << "q", "u", "i", "c", "k" >>, << "f", "o", "x" >>,
             << "b", "r", "o", "w", "n" >>, << "g", "u", "i", "d", "e" >> >>,
          << " " >>),
     Join(<< << "t", "h", "e" >>, << "q", "u", "i", "c", "k" >>,
             << "b", "r", "o", "w", "n" >>, << "f", "o", "x" >>,
             << "x", "y", "z" >> >>, << " " >>),
     Join(<< Rep("e_acute", 16), Rep("e_acute", 16), Rep("e_acute", 16),
             Rep("b", 30) >>, << " " >>),
     Join(<< Rep("a", 31), Rep("a", 31), Rep("a", 31),
             Rep("a", 31) \o << "e_acute" >> >>, << " " >>),
     Rep("a", 20) \o << " " >> \o Rep("b", 110) \o << " ", "f", "o", "x" >>}

QueryInputs ==
    {Join(words, << " " >>) :
        words \in UNION {[1..k -> QueryWords] : k \in 0..MaxQueryWords}}
        \cup LongQueries

QueryRequests ==
    [path   : {<< "/", "s", "e", "a", "r", "c", "h" >>},
     cookie : {<< "secret1" >>},
     auth   : {""},
     s      : QueryInputs]

InitQuery ==
    InitOn({FsPlain, FsMany}) /\ AuthTokens = {"secret1"}

NextQuery ==
    \/ \E r \in QueryRequests : Arrive("ServeHTTP", r)
    \/ \E r \in QueryRequests : Arrive("HandleSearchAPI", r)
    \/ Request_ServeHTTP
    \/ Request_HandleSearchAPI
    \/ Finish

SpecQuery ==
    InitQuery /\ [][NextQuery]_vars

\* Folders with one document, whose title ranges over the strings Slugify
\* is given.
SlugAlphabet ==
    {"a", "Z", "1", " ", "-", "E_acute", "comb_acute", "o_slash"}

\* the longest title
MaxSlugLen ==
    3

SlugInputs ==
    UNION {[1..k -> SlugAlphabet] : k \in 0..MaxSlugLen}

SlugFolders ==
    {DirEnt(<< >>, << FileEnt(title \o MdExt, << "x" >>) >>) :
        title \in SlugInputs}

SlugRequests ==
    [path   : {<< "/" >>, << "/", "a" >>, << "/", "e", "-", "1" >>},
     cookie : {<< "secret1" >>},
     auth   : {""},
     s      : {<< >>}]

InitSlug ==
    InitOn(SlugFolders) /\ AuthTokens = {"secret1"}

NextSlug ==
    \/ \E r \in SlugRequests : Arrive("ServeHTTP", r)
    \/ Request_ServeHTTP
    \/ Finish

SpecSlug ==
    InitSlug /\ [][NextSlug]_vars

\* Browsing the trees of a flat, an odd and a deep folder.
DeepSegs ==
    << << "d", "1" >>, << "d", "2" >>, << "d", "3" >>, << "d", "4" >>,
       << "d", "5" >>, << "s", "1" >>, << "d", "7" >>, << "x" >> >>

TreePaths ==
    {UrlPath(SubSeq(DeepSegs, 1, n), FALSE) : n \in 0..Len(DeepSegs)}
        \cup {UrlPath(SubSeq(DeepSegs, 1, 5) \o segments, FALSE) :
                segments \in {<< << "s", "2" >> >>,
                              << << "s", "2" >>, << "y" >> >>}}
        \cup {UrlPath(segments, FALSE) :
                segments \in {<< << "d", "o", "c", "s" >> >>,
                              << << "d", "o", "c", "s" >>, << "s", "u", "b" >> >>,
                              << << "a" >> >>,
                              << << "a" >>, << "b" >> >>,
                              << << "e", "-", "1" >> >>}}

TreeRequests ==
    [path   : TreePaths,
     cookie : {<< "secret1" >>},
     auth   : {""},
     s      : {<< >>}]

InitTree ==
    InitOn({FsPlain, FsOdd, FsDeep}) /\ AuthTokens = {"secret1"}

NextTree ==
    \/ \E r \in TreeRequests : Arrive("ServeHTTP", r)
    \/ Request_ServeHTTP
    \/ Finish

SpecTree ==
    InitTree /\ [][NextTree]_vars

(***************************************************************************)
(* The access gate's claims, under SpecGate                                *)
(***************************************************************************)
\* the handler of the request has run
Handled ==
    resp # NoResponse

\* the effective token as C1 words it
C1_EffectiveToken(r) ==
    LET cookieValue == IF r.cookie = << >> THEN "" ELSE r.cookie[1]
    IN  IF r.auth # "" /\ r.auth # cookieValue THEN r.auth ELSE cookieValue

\* C1: when "public" is not among the configured tokens, a request is
\* authorized if and only if its effective token is in the configured set,
\* the effective token being the "auth" query parameter when that is
\* non-empty and differs from the cookie's value, and the cookie's value
\* (empty without a cookie) otherwise.
C1_AuthorizedIffEffectiveTokenIsMember ==
    ("public" \notin AuthTokens /\ Handled) =>
        /\ authenticated(AuthTokens, req).ok
              <=> C1_EffectiveToken(req) \in AuthTokens
        /\ resp.status # 401 <=> C1_EffectiveToken(req) \in AuthTokens

\* a valid cookie with a different query token that is no member: refused
C1_Witness ==
    /\ "public" \notin AuthTokens
    /\ req.cookie = << "secret1" >>
    /\ req.auth = "bad"
    /\ resp.status = 401

\* C2: a request that the access gate reports unauthorized gets a 401 from
\* ServeHTTP and from HandleSearchAPI, and the handler does nothing else:
\* it reads neither srv.Root nor srv.Reader, runs no search, looks nothing
\* up in the tree and serves no file.
C2_UnauthorizedGets401AndNothingElse ==
    (Handled /\ ~ authenticated(AuthTokens, req).ok) =>
        /\ resp.status = 401
        /\ ~ resp.readRoot
        /\ ~ resp.readReader
        /\ ~ resp.searched
        /\ resp.lookups = 0
        /\ resp.fsAccess = << >>
        /\ resp.entry = << >>
        /\ resp.body = << >>
        /\ resp.matches = << >>

\* an unauthorized search through ServeHTTP, against an index that has a
\* match for it
C2_Witness ==
    /\ req.handler = "ServeHTTP"
    /\ req.s = << "f", "o", "x" >>
    /\ req.cookie = << "bad" >>
    /\ search(Reader, req.s).matches # << >>
    /\ resp.status = 401

\* C3: when "public" is among the configured tokens, every request is
\* authorized, with the empty token, whatever cookie and query token it
\* carries, and no cookie is issued.
C3_PublicAuthorizesEveryRequest ==
    ("public" \in AuthTokens /\ Handled) =>
        /\ authenticated(AuthTokens, req) =
              [token |-> "", ok |-> TRUE, setCookie |-> << >>]
        /\ resp.status # 401
        /\ resp.token = ""
        /\ resp.setCookie = << >>

\* an invalid cookie and a query token, on a server with "public" and
\* another token configured
C3_Witness ==
    /\ AuthTokens = {"public", "secret1"}
    /\ req.cookie = << "bad" >>
    /\ req.auth = "secret2"
    /\ resp.status = 200

\* C4 as claimed: without "public", a request with no cookie and no query
\* token is unauthorized; a request whose query token t is configured is
\* authorized and a cookie with value t is issued; a later request with
\* only that cookie is authorized and no cookie is issued.
C4_AsClaimed ==
    ("public" \notin AuthTokens /\ Handled) =>
        /\ (req.cookie = << >> /\ req.auth = "") => resp.status = 401
        /\ req.auth \in AuthTokens =>
              (resp.status # 401 /\ resp.setCookie = << req.auth >>)
        /\ (req.auth = "" /\ req.cookie # << >> /\ C1_EffectiveToken(req) \in issued) =>
              (resp.status # 401 /\ resp.setCookie = << >>)

\* C4, amended: ... a request whose query token t is configured is
\* authorized, and a cookie with value t is issued unless the request
\* already carries the cookie with that value; ...
C4_CookieIssuedUnlessAlreadyPresented ==
    ("public" \notin AuthTokens /\ Handled) =>
        /\ (req.cookie = << >> /\ req.auth = "") => resp.status = 401
        /\ req.auth \in AuthTokens =>
              /\ resp.status # 401
              /\ resp.setCookie =
                    IF req.cookie = << req.auth >> THEN << >> ELSE << req.auth >>
        /\ (req.auth = "" /\ req.cookie # << >> /\ C1_EffectiveToken(req) \in issued) =>
              (resp.status # 401 /\ resp.setCookie = << >>)

\* a request with only the cookie issued to an earlier request
C4_Witness ==
    /\ "public" \notin AuthTokens
    /\ req.auth = ""
    /\ req.cookie = << "secret2" >>
    /\ "secret2" \in issued
    /\ resp.status = 200
    /\ resp.setCookie = << >>

(***************************************************************************)
(* Reload's claims, under Spec                                             *)
(***************************************************************************)
\* C5 as claimed: in every reachable state the published Root and the
\* published Reader come from the same reload pass (the pair is replaced
\* in one step), so no request finds the Root of one pass together with
\* the Reader of another.
C5_RootAndReaderOfSamePass ==
    Root.pass = Reader.pass

\* C6 as claimed: when a Reload attempt has failed at any step (reading a
\* directory, reading a document, writing the batch, obtaining the reader)
\* Root and Reader both have exactly the values they had before the attempt.
C6_FailedReloadKeepsPublishedPair ==
    \A p \in Reloaders :
        (rl[p].pc = "idle" /\ rl[p].failedAt # "") =>
            /\ Root = rl[p].startRoot
            /\ Reader = rl[p].startReader

(***************************************************************************)
(* The router's claims, under SpecRoute                                    *)
(***************************************************************************)
\* the non-empty '/'-separated segments of a URL path, read off the path
\* itself: segment k runs from its start to the next '/'
C7_Starts(path) ==
    {i \in 1..Len(path) : path[i] # "/" /\ (i = 1 \/ path[i - 1] = "/")}

C7_SegmentCount(path) ==
    Cardinality(C7_Starts(path))

\* the request has been handled by ServeHTTP and was authorized
C7_Authorized ==
    /\ Handled
    /\ req.handler = "ServeHTTP"
    /\ authenticated(AuthTokens, req).ok

\* C7 as claimed: every authorized request whose path has more than 16
\* segments gets a 422, before any lookup in Subdirs or Files and before
\* any file-system access.
C7_AsClaimed ==
    (C7_Authorized /\ C7_SegmentCount(req.path) > 16) =>
        /\ resp.status = 422
        /\ resp.lookups = 0
        /\ resp.fsAccess = << >>
        /\ resp.entry = << >>

\* C7, amended: every authorized request without a non-empty "s" parameter
\* whose path has more than 16 segments gets a 422, before any lookup in
\* Subdirs or Files, before any file-system access and without reading
\* srv.Root; with a non-empty "s" parameter the search page is answered
\* whatever the length of the path.
C7_LongPathWithoutSearchGets422 ==
    (C7_Authorized /\ C7_SegmentCount(req.path) > 16) =>
        /\ req.s = << >> =>
              /\ resp.status = 422
              /\ ~ resp.readRoot
              /\ resp.lookups = 0
              /\ resp.fsAccess = << >>
              /\ resp.entry = << >>
              /\ resp.body = << >>
        /\ req.s # << >> => (resp.searched /\ resp.status # 422)

\* a path of 17 segments that begins with a subdirectory slug and a
\* document slug, refused
C7_Witness ==
    /\ C7_Authorized
    /\ req.s = << >>
    /\ C7_SegmentCount(req.path) = 17
    /\ SubSeq(req.path, 1, 6) = << "/", "d", "o", "c", "s", "/" >>
    /\ << "d", "o", "c", "s" >> \in DOMAIN Root.dir.Subdirs
    /\ resp.status = 422

\* the segments of a URL path, cut at the starts C7_Starts finds
C9_SegmentAt(path, i) ==
    LET ends == {j \in i..Len(path) : j = Len(path) \/ path[j + 1] = "/"}
        last == CHOOSE j \in ends : \A k \in ends : j <= k
    IN  SubSeq(path, i, last)

RECURSIVE C9_SegmentsFrom(_, _)
C9_SegmentsFrom(path, starts) ==
    IF starts = {} THEN << >>
    ELSE LET first == CHOOSE i \in starts : \A k \in starts : i <= k
         IN  << C9_SegmentAt(path, first) >>
                \o C9_SegmentsFrom(path, starts \ {first})

C9_Segments(path) ==
    C9_SegmentsFrom(path, C7_Starts(path))

\* the descent as C9 words it: through Subdirs while the next segment is a
\* subdirectory slug; [dir, rest, consumed]
RECURSIVE C9_Descend(_, _, _)
C9_Descend(dir, segments, consumed) ==
    IF segments # << >> /\ Head(segments) \in DOMAIN dir.Subdirs
    THEN C9_Descend(dir.Subdirs[Head(segments)], Tail(segments), consumed + 1)
    ELSE [dir |-> dir, rest |-> segments, consumed |-> consumed]

\* the request went through the router: authorized, no search, a path of
\* at most 16 segments
C9_Routed ==
    /\ C7_Authorized
    /\ req.s = << >>
    /\ C7_SegmentCount(req.path) <= 16

C9_At ==
    C9_Descend(Root.dir, C9_Segments(req.path), 0)

\* C8 as claimed: when the descent leaves more than one segment unconsumed
\* the response is 404, no document is rendered and no file is served from
\* storage.
C8_DeeperPathIsNotFound ==
    (C9_Routed /\ Len(C9_At.rest) > 1) =>
        /\ resp.status = 404
        /\ resp.kind = "notfound"
        /\ resp.entry = << >>
        /\ resp.body = << >>

\* what C9 says of zero unconsumed segments and of a document slug
C9_RendersDirOrDocument ==
    /\ resp.lookups = C9_At.consumed + (IF C9_At.rest = << >> THEN 0 ELSE 2)
    /\ C9_At.rest = << >> =>
          /\ resp.status = 200
          /\ resp.kind = "dir"
          /\ resp.entry = << C9_At.dir.FsPath >>
          /\ resp.fsAccess = << >>
    /\ (Len(C9_At.rest) = 1 /\ C9_At.rest[1] \in DOMAIN C9_At.dir.Files) =>
          /\ resp.status = 200
          /\ resp.kind = "file"
          /\ resp.entry = << C9_At.dir.Files[C9_At.rest[1]].ptr >>
          /\ resp.body = C9_At.dir.Files[C9_At.rest[1]].HTMLContent
          /\ resp.fsAccess = << >>

\* the one unconsumed segment is no document slug of the resolved directory
C9_PassThrough ==
    /\ C9_Routed
    /\ Len(C9_At.rest) = 1
    /\ C9_At.rest[1] \notin DOMAIN C9_At.dir.Files

\* the request path ends in "/index.html"
C9_EndsInIndexPage ==
    /\ Len(req.path) > Len(IndexPage)
    /\ SubSeq(req.path, Len(req.path) - Len(IndexPage), Len(req.path))
          = << "/" >> \o IndexPage

\* what C9 says of the file served from the resolved directory's FsPath
C9_ServesFileOfThatName ==
    LET names == C9_At.dir.FsPath \o C9_At.rest
        node == Lookup(fs, names)
    IN  /\ resp.fsAccess = << names >>
        /\ resp.entry = << >>
        /\ resp.status = 404 <=> node = NoEnt
        /\ (node # NoEnt /\ ~ node.isDir /\ node.readable) =>
              /\ resp.status = 200
              /\ resp.kind = "static"
              /\ resp.body = node.content

C10_Visible(node) ==
    {node.children[i] : i \in {j \in 1..Len(node.children) :
                                    node.children[j].name[1] # "."}}

\* the directory's subtree contains a document: a visible .md file in it or
\* in a visible directory below it
RECURSIVE C10_HasDocument(_)
C10_HasDocument(node) ==
    \E c \in C10_Visible(node) :
        IF c.isDir THEN C10_HasDocument(c)
        ELSE /\ Len(c.name) >= 3
             /\ SubSeq(c.name, Len(c.name) - 2, Len(c.name)) = << ".", "m", "d" >>

\* the visible directories below `node`, with their paths: [path, node]
RECURSIVE C10_DiskDirs(_, _)
C10_DiskDirs(node, path) ==
    UNION {{[path |-> Append(path, c.name), node |-> c]}
              \cup C10_DiskDirs(c, Append(path, c.name)) :
           c \in {v \in C10_Visible(node) : v.isDir}}

\* the directories of a pass's disk content without a document below them
C10_Bare(disk) ==
    {d \in C10_DiskDirs(disk, << >>) : ~ C10_HasDocument(d.node)}

\* the Dirs of a tree
RECURSIVE C10_TreeDirs(_)
C10_TreeDirs(dir) ==
    {dir} \cup UNION {C10_TreeDirs(dir.Subdirs[k]) : k \in DOMAIN dir.Subdirs}

\* the path string of the index document of the directory at `path`
RECURSIVE C10_PathString(_)
C10_PathString(path) ==
    IF path = << >> THEN << >>
    ELSE Head(path) \o << " ", "/", " " >> \o C10_PathString(Tail(path))

\* C10: after any Reload, every Dir of the published tree other than the
\* root has an entry in Subdirs or Files, and a directory whose subtree has
\* no document is in no Subdirs and no EntryList of the tree and has no
\* document in the index.
C10_NoEmptyBranches ==
    /\ \A d \in C10_TreeDirs(Root.dir) \ {Root.dir} :
          DOMAIN d.Subdirs # {} \/ DOMAIN d.Files # {}
    /\ \A bare \in C10_Bare(passFs[Root.pass + 1]) :
          \A d \in C10_TreeDirs(Root.dir) :
             /\ d.FsPath # bare.path
             /\ \A k \in DOMAIN d.Subdirs : d.Subdirs[k].FsPath # bare.path
             /\ \A i \in 1..Len(d.EntryList) : d.EntryList[i].ptr # bare.path
    /\ Reader # NilReader =>
          \A bare \in C10_Bare(passFs[Reader.pass + 1]) :
             \A i \in 1..Len(Reader.docs) :
                ~ /\ Reader.docs[i].isDir
                  /\ Reader.docs[i].path = C10_PathString(bare.path)

\* the pair published by a Reload of a folder that has directories with
\* only hidden files, only other files, only empty directories, or nothing
C10_Witness ==
    /\ Root.pass = 1
    /\ Reader.pass = 1
    /\ passFs[2] = FsPlain
    /\ {bare.path : bare \in C10_Bare(passFs[2])} =
          {<< << "E", "m", "p", "t", "y" >> >>,
           << << "A", "s", "s", "e", "t", "s" >> >>,
           << << "N", "e", "s", "t" >> >>,
           << << "N", "e", "s", "t" >>, << "I", "n" >> >>,
           << << "N", "e", "s", "t" >>, << "I", "n" >>, << "V", "o", "i", "d" >> >>,
           << << "H", "i", "d" >> >>}
    /\ << "d", "o", "c", "s" >> \in DOMAIN Root.dir.Subdirs

\* a name that starts with '.'
C11_Hidden(name) ==
    name # << >> /\ name[1] = "."

\* a path on disk with a hidden component
C11_HiddenPath(path) ==
    \E i \in 1..Len(path) : C11_Hidden(path[i])

\* an index document's path string names a hidden directory: it starts
\* with '.', or has a '.' right after a " / "
C11_HiddenInPathString(str) ==
    \/ C11_Hidden(str)
    \/ \E i \in 1..(Len(str) - 3) :
          SubSeq(str, i, i + 3) = << " ", "/", " ", "." >>

\* C11: no entry whose name starts with '.', and nothing under a directory
\* whose name starts with '.', is in a published Dir's Subdirs, Files or
\* EntryList, or is an index document.
C11_HiddenEntriesNeverPublished ==
    /\ \A d \in C10_TreeDirs(Root.dir) :
          /\ ~ C11_HiddenPath(d.FsPath)
          /\ \A k \in DOMAIN d.Subdirs : ~ C11_HiddenPath(d.Subdirs[k].FsPath)
          /\ \A k \in DOMAIN d.Files : ~ C11_HiddenPath(d.Files[k].ptr)
          /\ \A i \in 1..Len(d.EntryList) : ~ C11_HiddenPath(d.EntryList[i].ptr)
    /\ \A i \in 1..Len(Reader.docs) :
          /\ ~ C11_Hidden(Reader.docs[i].name)
          /\ ~ C11_HiddenInPathString(Reader.docs[i].path)

\* the pair published by a Reload of a folder that has a hidden directory
\* with a document in it and a hidden document next to a visible one
C11_Witness ==
    /\ Root.pass = 2
    /\ Reader.pass = 2
    /\ Lookup(passFs[3], << << ".", "g", "i", "t" >>, << "x", ".", "m", "d" >> >>) # NoEnt
    /\ Lookup(passFs[3], << << "D", "o", "c", "s" >>, << ".", "h", ".", "m", "d" >> >>) # NoEnt
    /\ DOMAIN Root.dir.Subdirs[<< "d", "o", "c", "s" >>].Files = {<< "g", "u", "i", "d", "e" >>}

\* the same folder, enumerated by the storage in the opposite order
RECURSIVE C12_Reversed(_)
C12_Reversed(node) ==
    [node EXCEPT !.children =
        [i \in 1..Len(node.children) |->
            C12_Reversed(node.children[Len(node.children) + 1 - i])]]

\* the EntryLists of a tree: for each Dir, what its list shows in order
C12_Lists(dir) ==
    {[of |-> d.FsPath,
      list |-> [i \in 1..Len(d.EntryList) |->
                   << d.EntryList[i].url, d.EntryList[i].isDir,
                      d.EntryList[i].title >>]] :
        d \in C10_TreeDirs(dir)}

\* C12: after Load of any directory, EntryList is ordered by non-decreasing
\* URL, directories and documents interleaved; it holds exactly the values
\* of Subdirs and the values of Files, each once; and the order is the same
\* when the storage enumerates the entries in another order.
C12_EntryListSortedAndComplete ==
    /\ \A d \in C10_TreeDirs(Root.dir) :
          /\ \A i \in 1..(Len(d.EntryList) - 1) :
                ~ StrLess(d.EntryList[i + 1].url, d.EntryList[i].url)
          /\ Len(d.EntryList) =
                Cardinality(DOMAIN d.Subdirs) + Cardinality(DOMAIN d.Files)
          /\ {d.EntryList[i] : i \in 1..Len(d.EntryList)} =
                {[isDir |-> TRUE, title |-> d.Subdirs[k].title,
                  url |-> d.Subdirs[k].url, ptr |-> d.Subdirs[k].FsPath] :
                    k \in DOMAIN d.Subdirs}
                \cup {[isDir |-> FALSE, title |-> d.Files[k].title,
                       url |-> d.Files[k].url, ptr |-> d.Files[k].ptr] :
                         k \in DOMAIN d.Files}
    /\ \E dirFirst \in BOOLEAN :
          C12_Lists(LoadRoot(C12_Reversed(passFs[Root.pass + 1]), dirFirst).dir)
             = C12_Lists(Root.dir)

\* a published root whose list has a document between two directories,
\* the document and the second directory having the same URL
C12_Witness ==
    /\ Root.pass > 0
    /\ Len(Root.dir.EntryList) = 3
    /\ Root.dir.EntryList[1].isDir
    /\ ~ Root.dir.EntryList[2].isDir
    /\ Root.dir.EntryList[3].isDir
    /\ Root.dir.EntryList[2].url = Root.dir.EntryList[3].url

(***************************************************************************)
(* The query engine's claims, under SpecQuery                              *)
(***************************************************************************)
\* the request is a search that has been handled
C13_Searched ==
    /\ Handled
    /\ req.handler = "HandleSearchAPI"
    /\ resp.searched

\* the normalization as C13 words it: the first 128 characters, lowercased,
\* split on whitespace, the first 4 words, those of more than 32 characters
\* dropped, duplicates removed
C13_Reference(input) ==
    LET cut == IF Len(input) > 128 THEN SubSeq(input, 1, 128) ELSE input
        lower == [i \in 1..Len(cut) |-> ToLowerRune(cut[i])]
        words == FieldsFunc(lower, "space")
        first == IF Len(words) > 4 THEN SubSeq(words, 1, 4) ELSE words
    IN  {first[i] : i \in {j \in 1..Len(first) : Len(first[j]) <= 32}}

\* C13 as claimed: for every input the set of query terms search builds is
\* the reference normalization of the input, the limits of 128 and of 32
\* being counted in characters; so there are at most 4 terms.
C13_TermsAreReferenceNormalization ==
    C13_Searched =>
        /\ SearchWords(req.s) = C13_Reference(req.s)
        /\ Cardinality(SearchWords(req.s)) <= 4

\* C14 as claimed: when normalization leaves no term, search returns an
\* empty match list and does not invoke the snapshot's Search.
C14_NoTermsNoSearch ==
    (C13_Searched /\ SearchWords(req.s) = {}) =>
        /\ resp.status = 200
        /\ resp.matches = << >>
        /\ ~ resp.readReader

\* the string search is given by the handler of the request
C15_Input ==
    IF req.handler = "ServeHTTP" THEN TrimSpace(req.s) ELSE req.s

\* edit distance at most 1, by comparing from the front
RECURSIVE C15_WithinOneEdit(_, _)
C15_WithinOneEdit(a, b) ==
    IF a = b THEN TRUE
    ELSE IF a = << >> THEN Len(b) = 1
    ELSE IF b = << >> THEN Len(a) = 1
    ELSE IF Head(a) = Head(b) THEN C15_WithinOneEdit(Tail(a), Tail(b))
    ELSE Tail(a) = Tail(b) \/ Tail(a) = b \/ a = Tail(b)

\* the word matches some term of the entry's composite field by edit
\* distance, as a prefix or as a substring
C15_TermMatches(doc, word) ==
    \E term \in AllTerms(doc) :
        \/ C15_WithinOneEdit(word, term)
        \/ Len(word) <= Len(term) /\ SubSeq(term, 1, Len(word)) = word
        \/ \E i \in 1..Len(term) : \E j \in i..Len(term) :
              SubSeq(term, i, j) = word

\* the indexed entries every term matches
C15_Entries ==
    {i \in 1..Len(Reader.docs) :
        /\ SearchWords(C15_Input) # {}
        /\ \A word \in SearchWords(C15_Input) :
              C15_TermMatches(Reader.docs[i], word)}

C16_Input ==
    LET name == fs.children[1].name
    IN  SubSeq(name, 1, Len(name) - 3)

C16_SlugChars ==
    {"a", "b", "c", "d", "e", "f", "g", "h", "i", "j", "k", "l", "m", "n",
     "o", "p", "q", "r", "s", "t", "u", "v", "w", "x", "y", "z",
     "0", "1", "2", "3", "4", "5", "6", "7", "8", "9"}

\* C16: Slugify is idempotent, Slugify("") = "", and its result is made of
\* non-empty runs of [a-z0-9] joined by single '-': no other character, no
\* '-' at either end, no two '-' in a row.
C16_SlugifyIdempotentAndWellFormed ==
    LET slug == Slugify(C16_Input)
    IN  /\ Slugify(slug) = slug
        /\ Slugify(<< >>) = << >>
        /\ \A i \in 1..Len(slug) : slug[i] \in C16_SlugChars \cup {"-"}
        /\ slug # << >> => (slug[1] # "-" /\ slug[Len(slug)] # "-")
        /\ \A i \in 1..(Len(slug) - 1) : ~ (slug[i] = "-" /\ slug[i + 1] = "-")
        /\ C16_Input # << >> => DOMAIN Root.dir.Files = {slug}

\* an accented capital, a dash and a digit: the document is found at "e-1"
C16_Witness ==
    /\ C16_Input = << "E_acute", "-", "1" >>
    /\ DOMAIN Root.dir.Files = {<< "e", "-", "1" >>}
    /\ resp.kind = "file"

(***************************************************************************)
(* The index's claims, under Spec                                          *)
(***************************************************************************)
\* the Directories (the root has no index document) and the Documents of
\* the published tree
C17_TreeEntries ==
    {[url |-> d.url, isDir |-> TRUE, ptr |-> d.FsPath] :
        d \in C10_TreeDirs(Root.dir) \ {Root.dir}}
    \cup UNION {{[url |-> d.Files[k].url, isDir |-> FALSE,
                  ptr |-> d.Files[k].ptr] : k \in DOMAIN d.Files} :
                d \in C10_TreeDirs(Root.dir)}

\* C17 as claimed: after a successful Reload the index holds exactly one
\* index document per Directory and per Document of the published tree,
\* with that entry's URL as its identifier, and none for anything else.
C17_OneIndexDocumentPerTreeEntry ==
    (Root.pass = Reader.pass /\ Reader # NilReader) =>
        /\ Len(Reader.docs) = Cardinality(C17_TreeEntries)
        /\ \A e \in C17_TreeEntries :
              Cardinality({i \in 1..Len(Reader.docs) :
                              /\ Reader.docs[i].id = e.url
                              /\ Reader.docs[i].isDir = e.isDir}) = 1
        /\ \A i \in 1..Len(Reader.docs) :
              \E e \in C17_TreeEntries :
                 /\ Reader.docs[i].id = e.url
                 /\ Reader.docs[i].isDir = e.isDir

\* C18 as claimed: when reading a directory or a document fails during
\* the walk, the walk is aborted and the failure reaches the caller of
\* Reload as a returned error.
C18_ReadFailureIsReturnedError ==
    \A p \in Reloaders :
        (rl[p].pc = "idle" /\ rl[p].failedAt \in {"ReadDir", "ReadFile"}) =>
            rl[p].returned = "error"

(***************************************************************************)
(* The cookie's claim, under SpecGate                                      *)
(***************************************************************************)
\* C19 as claimed: every auth cookie the server issues carries a member of
\* the configured token set; a request whose query token is no member
\* causes no cookie to be set.
C19_IssuedCookiesCarryAcceptedTokens ==
    Handled =>
        /\ resp.setCookie # << >> => resp.setCookie[1] \in AuthTokens
        /\ req.auth \notin AuthTokens => resp.setCookie = << >>

(***************************************************************************)
(* Dir.Path's claim, under SpecTree                                        *)
(***************************************************************************)
\* the ancestors of the directory at `path`, from the root down to its
\* parent
C20_Ancestors(path) ==
    [i \in 1..Len(path) |-> SubSeq(path, 1, i - 1)]

\* C20 as claimed: for every directory D of the published tree, at every
\* depth, D.Path is the sequence of D's ancestors from the root down to D's
\* parent: loading D's siblings and calling PathString have not altered it.
C20_PathIsTheAncestors ==
    \A d \in C10_TreeDirs(Root.dir) :
        SliceElems(Root.heap, d.Path) = C20_Ancestors(d.FsPath)

(***************************************************************************)
(* The path field's claim, under Spec                                      *)
(***************************************************************************)
\* the entries of a disk content that get an index document, each with its
\* name, its kind and the names of the directories above it (root excluded)
RECURSIVE C21_DiskEntries(_, _)
C21_DiskEntries(node, above) ==
    UNION {IF c.isDir
           THEN (IF C10_HasDocument(c)
                 THEN {[name |-> c.name, isDir |-> TRUE, above |-> above]}
                 ELSE {})
                \cup C21_DiskEntries(c, Append(above, c.name))
           ELSE IF HasSuffix(c.name, MdExt)
           THEN {[name |-> c.name, isDir |-> FALSE, above |-> above]}
           ELSE {} :
           c \in C10_Visible(node)}

\* `str` is the ancestor path of an entry of that name and kind in the
\* content pass `n` read
C21_IsAncestorPath(n, name, isDir, str) ==
    \E e \in C21_DiskEntries(passFs[n + 1], << >>) :
        /\ e.name = name
        /\ e.isDir = isDir
        /\ str = C10_PathString(e.above)

\* C21 as claimed: the path field of every index document and of every
\* query match is the entry's ancestor path only, the titles of the
\* directories above the entry, each followed by " / ", without the entry's
\* own name, for directory entries as well as for documents.
C21_PathFieldIsAncestorPath ==
    /\ \A i \in 1..Len(Reader.docs) :
          C21_IsAncestorPath(Reader.pass, Reader.docs[i].name,
                             Reader.docs[i].isDir, Reader.docs[i].path)
    /\ (Handled /\ resp.searched) =>
          \A i \in 1..Len(resp.matches) :
             \E isDir \in BOOLEAN :
                C21_IsAncestorPath(resp.readerPass, resp.matches[i].Name,
                                   isDir, resp.matches[i].Path)

(***************************************************************************)
(* The canonical URLs' claim, under SpecTree                               *)
(***************************************************************************)
\* the Directories, the root among them, and the Documents of the
\* published tree
C22_TreeEntries ==
    C17_TreeEntries
        \cup {[url |-> Root.dir.url, isDir |-> TRUE, ptr |-> Root.dir.FsPath]}

\* C22 as claimed: for every directory and document of the published tree,
\* an authorized request without search parameter for the entry's canonical
\* URL renders that same entry, also when a document's slug is the slug of
\* a sibling directory and when a slug is empty.
C22_CanonicalUrlRendersItsEntry ==
    (Handled /\ resp.status # 401 /\ req.s = << >>) =>
        \A e \in C22_TreeEntries :
            req.path = e.url =>
                /\ resp.kind = (IF e.isDir THEN "dir" ELSE "file")
                /\ resp.entry = << e.ptr >>

(***************************************************************************)
(* The hidden entries' claim, under SpecRoute                              *)
(***************************************************************************)
\* C23 as claimed: no request makes the router serve content of a file or
\* directory whose name starts with '.', or of anything below such a
\* directory, neither as a rendered entry nor through the pass-through
\* file path.
C23_HiddenContentNeverServed ==
    (Handled /\ resp.status = 200) =>
        /\ resp.entry # << >> => ~ C11_HiddenPath(resp.entry[1])
        /\ resp.fsAccess # << >> => ~ C11_HiddenPath(resp.fsAccess[1])

(***************************************************************************)
(* The overlapping Reloads' claim, under SpecRace                          *)
(***************************************************************************)
\* two calls of Reload that overlapped have both returned nil
C24_BothReturned(p, q) ==
    /\ p # q
    /\ \A r \in {p, q} :
          /\ rl[r].pc = "idle"
          /\ rl[r].overlapped
          /\ rl[r].returned = "nil"
          /\ rl[r].failedAt = ""

\* C24 as claimed: if two Reload calls overlap in time, then once both
\* have returned, the published Root and Reader come from the same one of
\* the two passes.
C24_OverlappingReloadsPublishOnePass ==
    \A p, q \in Reloaders :
        C24_BothReturned(p, q) => Root.pass = Reader.pass

=============================================================================
